---- MODULE Spec2Model ----
(***************************************************************************)
(* Model of meowcoin-groomer.py: the wallet consolidation loop.            *)
(*                                                                         *)
(* Amounts are Decimal values in the script; here they are exact integers  *)
(* counted in units of 0.00001 MEWC (1 MEWC = 100000 units), so 0.0001 is  *)
(* 10, 0.01 is 1000 and 10 MEWC is 1000000.  Scripts and addresses are     *)
(* natural numbers.  A UTXO is a record [scriptPubKey, amount,             *)
(* confirmations]; its (txid, vout) is its position in the fetched list.   *)
(***************************************************************************)
EXTENDS Integers, Sequences, FiniteSets, Bags, TLC

VARIABLES
  wallet,       \* the wallet's unspent outputs (a bag of UTXO records)
  args,         \* parsed command line (max_amt_input, max_num_tx, max_amt_per_output, fee)
  pc,           \* position of the script inside the while True loop
  coins,        \* result of the last listunspent
  scripts,      \* script -> <<small count, total amount, third component>>
  usescripts,   \* scripts selected for consolidation
  amt,          \* total of the gathered inputs
  txouts,       \* gathered inputs, as positions in coins
  out,          \* dict address -> amount, in insertion order
  na,           \* amount still to be paid out
  txn,          \* result of createrawtransaction
  signed_txn,   \* result of signrawtransaction
  a,            \* last answer read by input()
  lastCall,     \* name of the most recent wallet RPC
  callSeq,      \* flips at every wallet RPC
  failed,       \* the RPC that raised, or "none"
  exitReason    \* why the process ended, or "running"

vars == <<wallet, args, pc, coins, scripts, usescripts, amt, txouts, out, na,
          txn, signed_txn, a, lastCall, callSeq, failed, exitReason>>

planVars == <<scripts, usescripts, amt, txouts, out, na>>
txVars == <<txn, signed_txn>>

----------------------------------------------------------------------------
(* Bounds of the model *)

\* most UTXOs in the initial wallet
MaxCoins == 4

(* Constants of the script, in units of 0.00001 MEWC *)
MinSmallAmount == 1000
MinConfirmations == 100
GateMinCount == 3
GateMinAmount == 1000
DustTotal == 10
MinRemainder == 1000000

(* Values the inputs are drawn from *)
CoinKinds ==
  { [scriptPubKey |-> 1, amount |-> 100000,  confirmations |-> 200],
    [scriptPubKey |-> 1, amount |-> 100000,  confirmations |-> 50],
    [scriptPubKey |-> 1, amount |-> 1200000, confirmations |-> 200],
    [scriptPubKey |-> 2, amount |-> 5,       confirmations |-> 200],
    [scriptPubKey |-> 2, amount |-> 100000,  confirmations |-> 200] }

MaxAmtInputChoices == {1000000, 2500000}
MaxNumTxChoices == {0, 2, 500}
MaxAmtPerOutputChoices == {0, 2000000}
FeeChoices == {0, 500000}
NewConfirmations == {1}
AnswerChoices == {"y", "n", "N"}

(* The smaller family of wallets the liveness runs start from *)
LiveCoinKinds ==
  { [scriptPubKey |-> 1, amount |-> 100000,  confirmations |-> 200],
    [scriptPubKey |-> 1, amount |-> 1200000, confirmations |-> 200],
    [scriptPubKey |-> 2, amount |-> 5,       confirmations |-> 200] }

NoTx == [vin |-> <<>>, vout |-> <<>>, made |-> FALSE]

----------------------------------------------------------------------------
(* Helpers *)

Min(x, y) == IF x <= y THEN x ELSE y

RECURSIVE SeqToBag(_)
SeqToBag(s) ==
  IF s = <<>> THEN EmptyBag
  ELSE SetToBag({s[1]}) (+) SeqToBag(Tail(s))

RECURSIVE BagToSeq(_)
BagToSeq(b) ==
  IF b = EmptyBag THEN <<>>
  ELSE CHOOSE s \in { <<c>> \o BagToSeq(b (-) SetToBag({c}))
                       : c \in {CHOOSE x \in BagToSet(b) : TRUE} } : TRUE

\* every order in which listunspent may return the UTXOs listed in base
Orders(base) ==
  { [i \in DOMAIN base |-> base[p[i]]] : p \in Permutations(DOMAIN base) }

WalletsOf(kinds) ==
  { SeqToBag(s) : s \in UNION { [1..n -> kinds] : n \in 0..MaxCoins } }

----------------------------------------------------------------------------
(* Lines 57-65: aggregation *)

IsSmall(coin) ==
  /\ coin.amount < args.max_amt_input
  /\ coin.amount >= MinSmallAmount
  /\ coin.confirmations > MinConfirmations

AddCoin(sc, coin) ==
  LET script == coin.scriptPubKey
      cur == IF script \in DOMAIN sc THEN sc[script] ELSE <<0, 0, 0>>
      new == IF IsSmall(coin)
             THEN <<cur[1] + 1, cur[2] + coin.amount, cur[1] + 1>>
             ELSE <<cur[1], cur[2] + coin.amount, cur[1] + 1>>
  IN (script :> new) @@ sc

NoScripts == [s \in {} |-> <<0, 0, 0>>]

\* the loop of line 58, from coin i on, sc being the dict so far (the
\* singleton sets here and below only name a value that is computed once)
RECURSIVE Aggregate(_, _, _)
Aggregate(cs, i, sc) ==
  IF i > Len(cs) THEN sc
  ELSE CHOOSE r \in { Aggregate(cs, i + 1, next) : next \in {AddCoin(sc, cs[i])} } : TRUE

----------------------------------------------------------------------------
(* Lines 71-84: target script, gate, dust scripts *)

TupleLess(x, y) ==
  \/ x[1] < y[1]
  \/ x[1] = y[1] /\ x[2] < y[2]
  \/ x[1] = y[1] /\ x[2] = y[2] /\ x[3] < y[3]

\* dict order is insertion order: the position of a script's first coin
FirstIndex(cs, s) ==
  CHOOSE i \in 1..Len(cs) :
    /\ cs[i].scriptPubKey = s
    /\ \A j \in 1..(i - 1) : cs[j].scriptPubKey # s

\* max() keeps the first of several greatest items
MostOverused(cs, sc) ==
  CHOOSE s \in DOMAIN sc :
    \A t \in DOMAIN sc \ {s} :
      \/ TupleLess(sc[t], sc[s])
      \/ sc[t] = sc[s] /\ FirstIndex(cs, s) < FirstIndex(cs, t)

\* variant: the count test off by one
GateStopsBelowTwo(sc, m) ==
  sc[m][3] < GateMinCount - 1 \/ sc[m][2] < GateMinAmount

GateStops(sc, m) ==
  sc[m][3] < GateMinCount \/ sc[m][2] < GateMinAmount

\* variant: the dust loop of lines 82-84 left out
UseScriptsTargetOnly(sc, m) == {m}

UseScripts(sc, m) ==
  {m} \cup { s \in DOMAIN sc : sc[s][2] < DustTotal }

----------------------------------------------------------------------------
(* Lines 86-96: input gathering *)

\* variant: the break test written with > instead of >=
RECURSIVE GatherOneMore(_, _, _, _, _)
GatherOneMore(cs, use, i, acc, total) ==
  IF i > Len(cs) THEN [txouts |-> acc, amt |-> total]
  ELSE IF Len(acc) > args.max_num_tx THEN [txouts |-> acc, amt |-> total]
  ELSE IF cs[i].scriptPubKey \in use
       THEN CHOOSE r \in { GatherOneMore(cs, use, i + 1, acc2, total + cs[i].amount)
                            : acc2 \in {Append(acc, i)} } : TRUE
       ELSE GatherOneMore(cs, use, i + 1, acc, total)

RECURSIVE Gather(_, _, _, _, _)
Gather(cs, use, i, acc, total) ==
  IF i > Len(cs) THEN [txouts |-> acc, amt |-> total]
  ELSE IF Len(acc) >= args.max_num_tx THEN [txouts |-> acc, amt |-> total]
  ELSE IF cs[i].scriptPubKey \in use
       THEN CHOOSE r \in { Gather(cs, use, i + 1, acc2, total + cs[i].amount)
                            : acc2 \in {Append(acc, i)} } : TRUE
       ELSE Gather(cs, use, i + 1, acc, total)

----------------------------------------------------------------------------
(* Lines 105-114: one pass of the output loop *)

\* line 102
\* variant: the fee not taken off
RemainingNoFee(total) == total

Remaining(total) == total - args.fee

\* variant: max() where line 106 has min()
SendAmountMax(remaining) ==
  LET amount == IF args.max_amt_per_output >= remaining
                THEN args.max_amt_per_output ELSE remaining
  IN IF remaining - amount < MinRemainder THEN remaining ELSE amount

\* variant: a small remainder sent on its own instead of merged
SendAmountRemainderOnly(remaining) ==
  LET amount == Min(args.max_amt_per_output, remaining)
  IN IF remaining - amount < MinRemainder THEN remaining - amount ELSE amount

SendAmount(remaining) ==
  LET amount == Min(args.max_amt_per_output, remaining)
  IN IF remaining - amount < MinRemainder THEN remaining ELSE amount

OutAddrs(o) == { o[i].addr : i \in 1..Len(o) }

\* getnewaddress: an address no UTXO and no planned output uses
FreshAddress ==
  LET used == { coins[i].scriptPubKey : i \in 1..Len(coins) } \cup OutAddrs(out)
  IN CHOOSE n \in 1..(Cardinality(used) + 1) :
       /\ n \notin used
       /\ \A k \in 1..(n - 1) : k \in used

\* out[addr] += amount, creating the key when absent
AddOut(o, addr, amount) ==
  IF addr \in OutAddrs(o)
  THEN [i \in 1..Len(o) |->
          IF o[i].addr = addr THEN [addr |-> addr, amount |-> o[i].amount + amount]
          ELSE o[i]]
  ELSE Append(o, [addr |-> addr, amount |-> amount])

RECURSIVE SumOut(_)
SumOut(o) == IF o = <<>> THEN 0 ELSE o[1].amount + SumOut(Tail(o))

----------------------------------------------------------------------------
(* The effect of a broadcast on the wallet *)

SpentBag(cs, ins) == SeqToBag([k \in 1..Len(ins) |-> cs[ins[k]]])

CreatedBag(o, conf) ==
  SeqToBag([k \in 1..Len(o) |->
     [scriptPubKey |-> o[k].addr, amount |-> o[k].amount, confirmations |-> conf]])

----------------------------------------------------------------------------
ArgChoices ==
  [max_amt_input : MaxAmtInputChoices,
   max_num_tx : MaxNumTxChoices,
   max_amt_per_output : MaxAmtPerOutputChoices,
   fee : FeeChoices]

\* the state at line 50, the wallet being reachable and unlocked
Start(wallets, choices) ==
  /\ wallet \in wallets
  /\ args \in choices
  /\ pc = "listunspent"
  /\ coins = <<>>
  /\ scripts = NoScripts
  /\ usescripts = {}
  /\ amt = 0
  /\ txouts = <<>>
  /\ out = <<>>
  /\ na = 0
  /\ txn = NoTx
  /\ signed_txn = NoTx
  /\ a = ""
  /\ lastCall = "getwalletinfo"
  /\ callSeq = 0
  /\ failed = "none"
  /\ exitReason = "running"

Init == Start(WalletsOf(CoinKinds), ArgChoices)

Called(name) ==
  /\ lastCall' = name
  /\ callSeq' = 1 - callSeq

Exit(reason) ==
  /\ pc' = "exit"
  /\ exitReason' = reason

\* lines 51-52
Fetch ==
  /\ pc = "listunspent"
  /\ \E base \in {BagToSeq(wallet)} : coins' \in Orders(base)
  /\ Called("listunspent")
  /\ pc' = "plan"
  /\ UNCHANGED <<wallet, args, planVars, txVars, a, failed, exitReason>>

\* lines 53-55
FetchFail ==
  /\ pc = "listunspent"
  /\ Called("listunspent")
  /\ failed' = "listunspent"
  /\ Exit("error")
  /\ UNCHANGED <<wallet, args, coins, planVars, txVars, a>>

\* lines 57-102
Plan ==
  /\ pc = "plan"
  /\ \E sc \in {Aggregate(coins, 1, NoScripts)} :
        /\ scripts' = sc
        /\ IF DOMAIN sc = {}
           THEN /\ Exit("clean")
                /\ UNCHANGED <<usescripts, amt, txouts, out, na>>
           ELSE \E most_overused \in {MostOverused(coins, sc)} :
                   IF GateStops(sc, most_overused)
                   THEN /\ Exit("clean")
                        /\ UNCHANGED <<usescripts, amt, txouts, out, na>>
                   ELSE \E use \in {UseScripts(sc, most_overused)} :
                        \E g \in {Gather(coins, use, 1, <<>>, 0)} :
                           /\ usescripts' = use
                           /\ amt' = g.amt
                           /\ txouts' = g.txouts
                           /\ out' = <<>>
                           /\ na' = Remaining(g.amt)
                           /\ pc' = IF Remaining(g.amt) > 0
                                    THEN "getnewaddress"
                                    ELSE "createrawtransaction"
                           /\ UNCHANGED exitReason
  /\ UNCHANGED <<wallet, args, coins, txVars, a, lastCall, callSeq, failed>>

\* lines 105-114
NewOutput ==
  /\ pc = "getnewaddress"
  /\ LET amount == SendAmount(na)
         addr == FreshAddress
     IN /\ out' = IF amount > 0 THEN AddOut(out, addr, amount) ELSE out
        /\ na' = na - amount
        /\ pc' = IF na - amount > 0 THEN "getnewaddress" ELSE "createrawtransaction"
  /\ Called("getnewaddress")
  /\ UNCHANGED <<wallet, args, coins, scripts, usescripts, amt, txouts,
                 txVars, a, failed, exitReason>>

\* line 109 raising: not caught, the interpreter ends the process
NewOutputFail ==
  /\ pc = "getnewaddress"
  /\ Called("getnewaddress")
  /\ failed' = "getnewaddress"
  /\ Exit("crash")
  /\ UNCHANGED <<wallet, args, coins, planVars, txVars, a>>

\* line 120
Create ==
  /\ pc = "createrawtransaction"
  /\ txn' = [vin |-> txouts, vout |-> out, made |-> TRUE]
  /\ Called("createrawtransaction")
  /\ pc' = "promptSign"
  /\ UNCHANGED <<wallet, args, coins, planVars, signed_txn, a, failed, exitReason>>

\* line 120 raising, lines 134-136
CreateFail ==
  /\ pc = "createrawtransaction"
  /\ Called("createrawtransaction")
  /\ failed' = "createrawtransaction"
  /\ Exit("error")
  /\ UNCHANGED <<wallet, args, coins, planVars, txVars, a>>

\* lines 121-123
PromptSignAnswer(answer) ==
  /\ pc = "promptSign"
  /\ a' = answer
  /\ IF answer = "n" \/ answer = "N"
     THEN Exit("declined")
     ELSE pc' = "signrawtransaction" /\ UNCHANGED exitReason
  /\ UNCHANGED <<wallet, args, coins, planVars, txVars, lastCall, callSeq, failed>>

PromptSign == \E answer \in AnswerChoices : PromptSignAnswer(answer)

\* line 125
Sign ==
  /\ pc = "signrawtransaction"
  /\ signed_txn' = txn
  /\ Called("signrawtransaction")
  /\ pc' = "promptSend"
  /\ UNCHANGED <<wallet, args, coins, planVars, txn, a, failed, exitReason>>

\* line 125 raising, lines 134-136
SignFail ==
  /\ pc = "signrawtransaction"
  /\ Called("signrawtransaction")
  /\ failed' = "signrawtransaction"
  /\ Exit("error")
  /\ UNCHANGED <<wallet, args, coins, planVars, txVars, a>>

\* variant: the answer to the send prompt not looked at
PromptSendAnswerIgnored(answer) ==
  /\ pc = "promptSend"
  /\ a' = answer
  /\ pc' = "sendrawtransaction"
  /\ UNCHANGED <<wallet, args, coins, planVars, txVars, lastCall, callSeq,
                 failed, exitReason>>

\* lines 128-130
PromptSendAnswer(answer) ==
  /\ pc = "promptSend"
  /\ a' = answer
  /\ IF answer = "n" \/ answer = "N"
     THEN Exit("declined")
     ELSE pc' = "sendrawtransaction" /\ UNCHANGED exitReason
  /\ UNCHANGED <<wallet, args, coins, planVars, txVars, lastCall, callSeq, failed>>

PromptSend == \E answer \in AnswerChoices : PromptSendAnswer(answer)

\* lines 132-133, then back to line 50
Send ==
  /\ pc = "sendrawtransaction"
  /\ \E conf \in NewConfirmations :
       wallet' = (wallet (-) SpentBag(coins, signed_txn.vin))
                   (+) CreatedBag(signed_txn.vout, conf)
  /\ Called("sendrawtransaction")
  /\ pc' = "listunspent"
  /\ UNCHANGED <<args, coins, planVars, txVars, a, failed, exitReason>>

\* variant: the handler of lines 134-136 without its sys.exit()
SendFailContinues ==
  /\ pc = "sendrawtransaction"
  /\ Called("sendrawtransaction")
  /\ failed' = "sendrawtransaction"
  /\ pc' = "listunspent"
  /\ UNCHANGED <<wallet, args, coins, planVars, txVars, a, exitReason>>

\* line 132 raising, lines 134-136
SendFail ==
  /\ pc = "sendrawtransaction"
  /\ Called("sendrawtransaction")
  /\ failed' = "sendrawtransaction"
  /\ Exit("error")
  /\ UNCHANGED <<wallet, args, coins, planVars, txVars, a>>

Next ==
  \/ Fetch
  \/ FetchFail
  \/ Plan
  \/ NewOutput
  \/ NewOutputFail
  \/ Create
  \/ CreateFail
  \/ PromptSign
  \/ Sign
  \/ SignFail
  \/ PromptSend
  \/ Send
  \/ SendFail

Spec == Init /\ [][Next]_vars

(* The run the liveness claims are about: every wallet call succeeds and the
   user accepts every prompt.  The script never waits on anything else, so a
   step that is possible is eventually taken. *)
NextLive ==
  \/ Fetch
  \/ Plan
  \/ NewOutput
  \/ Create
  \/ PromptSignAnswer("y")
  \/ Sign
  \/ PromptSendAnswer("y")
  \/ Send

\* the liveness claims are about runs that gather at least one input
LiveArgChoices ==
  [max_amt_input : {2500000},
   max_num_tx : {1, 500},
   max_amt_per_output : MaxAmtPerOutputChoices,
   fee : FeeChoices]

InitLive == Start(WalletsOf(LiveCoinKinds), LiveArgChoices)

SpecLive == InitLive /\ [][NextLive]_vars /\ WF_vars(NextLive)

----------------------------------------------------------------------------
(* What the claims speak about, computed from the fetched list itself *)

ScriptsOf(cs) == { cs[i].scriptPubKey : i \in 1..Len(cs) }

CoinsOf(cs, s) == { i \in 1..Len(cs) : cs[i].scriptPubKey = s }

RECURSIVE SumAt(_, _)
SumAt(cs, I) ==
  IF I = {} THEN 0
  ELSE LET i == CHOOSE j \in I : TRUE IN cs[i].amount + SumAt(cs, I \ {i})

SmallCount(cs, s) ==
  Cardinality({ i \in CoinsOf(cs, s) :
                  /\ 1000 <= cs[i].amount
                  /\ cs[i].amount < args.max_amt_input
                  /\ cs[i].confirmations > 100 })

TotalAmount(cs, s) == SumAt(cs, CoinsOf(cs, s))

TotalCount(cs, s) == Cardinality(CoinsOf(cs, s))

TrueAggregate(cs, s) == <<SmallCount(cs, s), TotalAmount(cs, s), TotalCount(cs, s)>>

\* the scripts whose true aggregate is lexicographically greatest
TrueBest(cs) ==
  { s \in ScriptsOf(cs) :
      \A t \in ScriptsOf(cs) : ~TupleLess(TrueAggregate(cs, s), TrueAggregate(cs, t)) }

\* the planner has run on the current coins
PostPlan == pc \notin {"listunspent", "plan"} /\ failed # "listunspent"

\* ... and passed the gate
PlanMade == PostPlan /\ exitReason # "clean"

\* ... and the output loop has ended
PlanComplete == PlanMade /\ pc # "getnewaddress" /\ failed # "getnewaddress"

Declined == {"n", "N"}

----------------------------------------------------------------------------
(* C1: in every iteration that produces a plan, the sum of the selected
   inputs' amounts minus the fee equals the sum of the planned outputs, with
   no condition relating the inputs' total to the fee.  Stated here for the
   plans that select at least one input, where it already fails. *)
C1_InputsMinusFeeEqualOutputs ==
  (PlanComplete /\ txouts # <<>>) =>
    SumAt(coins, { txouts[k] : k \in 1..Len(txouts) }) - args.fee = SumOut(out)

C3_Precondition ==
  \/ coins = <<>>
  \/ \E s \in TrueBest(coins) :
       TotalCount(coins, s) < 3 \/ TotalAmount(coins, s) < 1000

C3_CleanWalletStops ==
  (PostPlan /\ C3_Precondition) =>
    /\ pc = "exit"
    /\ exitReason = "clean"
    /\ lastCall = "listunspent"

C3_Witness ==
  /\ PostPlan
  /\ C3_Precondition
  /\ Len(coins) >= 3
  /\ \E s \in ScriptsOf(coins) : TotalCount(coins, s) >= 3

(* C4: after aggregation each script's stored tuple is (smallCount,
   totalAmount, totalCount), the third component being the number of UTXOs
   under the script whatever the fetch order. *)
C4_AggregateIsTrueAggregate ==
  PostPlan =>
    /\ DOMAIN scripts = ScriptsOf(coins)
    /\ \A s \in ScriptsOf(coins) : scripts[s] = TrueAggregate(coins, s)

(* C5 as stated: every script whose total is below 0.0001 is in the selected
   set, even when the top script fails the gate. *)
C5_DustAlwaysSelected ==
  PostPlan =>
    \A s \in ScriptsOf(coins) : TotalAmount(coins, s) < 10 => s \in usescripts

(* C5 amended: in every iteration that passes the gate, every script whose
   total is below 0.0001 is in the selected set, whatever its small count. *)
C5_DustSelectedWhenGatePasses ==
  PlanMade =>
    \A s \in ScriptsOf(coins) : TotalAmount(coins, s) < 10 => s \in usescripts

C5_Witness ==
  /\ PlanMade
  /\ \E s \in usescripts :
       /\ TotalAmount(coins, s) < 10
       /\ SmallCount(coins, s) = 0
       /\ s \notin TrueBest(coins)

(* C6: the selected inputs are the first min(max_num_tx, k) UTXOs, in fetch
   order, whose script is selected, and amt is the sum of their amounts. *)
MatchingInputs ==
  LET InUse(i) == coins[i].scriptPubKey \in usescripts
  IN SelectSeq([i \in 1..Len(coins) |-> i], InUse)

C6_InputsAreFirstMatching ==
  (PlanMade /\ args.max_num_tx >= 0) =>
    LET n == Min(args.max_num_tx, Len(MatchingInputs))
    IN /\ txouts = SubSeq(MatchingInputs, 1, n)
       /\ amt = SumAt(coins, { MatchingInputs[k] : k \in 1..n })
       /\ Len(txouts) <= args.max_num_tx

C6_Witness ==
  /\ PlanMade
  /\ args.max_num_tx = 2
  /\ Len(MatchingInputs) >= 3
  /\ txouts # <<1, 2>>
  /\ Len(txouts) = 2

(* C7: signrawtransaction comes only after a successful createrawtransaction
   and an accepted sign prompt, sendrawtransaction only after a successful
   signrawtransaction and an accepted send prompt; a decline ends the process
   with no broadcast and no further wallet call. *)
C7_CreateSignSendOrder ==
  [][ /\ (callSeq' # callSeq /\ lastCall' = "signrawtransaction") =>
           /\ lastCall = "createrawtransaction"
           /\ txn.made
           /\ failed = "none"
           /\ a \notin Declined
      /\ (callSeq' # callSeq /\ lastCall' = "sendrawtransaction") =>
           /\ lastCall = "signrawtransaction"
           /\ signed_txn.made
           /\ signed_txn = txn
           /\ failed = "none"
           /\ a \notin Declined
      /\ (pc \in {"promptSign", "promptSend"} /\ a' \in Declined) =>
           /\ pc' = "exit"
           /\ UNCHANGED <<wallet, callSeq>>
      /\ exitReason = "declined" => UNCHANGED <<wallet, callSeq>>
    ]_vars

C7_Witness ==
  /\ exitReason = "declined"
  /\ lastCall = "signrawtransaction"
  /\ a = "N"
  /\ wallet = SeqToBag(coins)

(* C8: when listunspent, createrawtransaction, signrawtransaction or
   sendrawtransaction fails, the process ends there: no wallet call follows
   and the wallet keeps what earlier broadcasts made of it. *)
FatalCalls ==
  {"listunspent", "createrawtransaction", "signrawtransaction", "sendrawtransaction"}

C8_FailureIsFatal ==
  [][ /\ (failed = "none" /\ failed' \in FatalCalls) =>
           /\ pc' = "exit"
           /\ lastCall' = failed'
           /\ wallet' = wallet
      /\ failed \in FatalCalls => UNCHANGED <<wallet, callSeq, pc>>
    ]_vars

C8_Witness ==
  /\ failed = "sendrawtransaction"
  /\ pc = "exit"
  /\ wallet = SeqToBag(coins)
  /\ signed_txn.made

(* C9 as stated: with max_num_tx >= 1, max_amt_per_output > 0 and fee >= 0,
   every call succeeding and every prompt accepted, the loop eventually finds
   the wallet clean and exits. *)
C9_EventuallyClean ==
  (args.max_num_tx >= 1 /\ args.max_amt_per_output > 0 /\ args.fee >= 0)
    => <>(pc = "exit" /\ exitReason = "clean")

(* C9 amended: the same with a fee that is strictly positive. *)
C9_EventuallyCleanPositiveFee ==
  (args.max_num_tx >= 1 /\ args.max_amt_per_output > 0 /\ args.fee > 0)
    => <>(pc = "exit" /\ exitReason = "clean")

C9_Witness ==
  /\ args.max_num_tx >= 1 /\ args.max_amt_per_output > 0 /\ args.fee > 0
  /\ pc = "exit" /\ exitReason = "clean"
  /\ signed_txn.made
  /\ Len(signed_txn.vout) >= 1
  /\ coins # <<>>

(* C10 as stated: for every fee and max_amt_per_output the command line
   accepts, the output loop ends and the script goes on to
   createrawtransaction. *)
C10_OutputLoopEnds ==
  [](pc = "getnewaddress" => <>(pc = "createrawtransaction"))

(* C10 amended: the same for every max_amt_per_output that is strictly
   positive. *)
C10_OutputLoopEndsPositiveMax ==
  args.max_amt_per_output > 0 =>
    [](pc = "getnewaddress" => <>(pc = "createrawtransaction"))

C10_Witness ==
  /\ args.max_amt_per_output > 0
  /\ pc = "createrawtransaction"
  /\ Len(out) >= 2
  /\ na = 0

====
